---- MODULE Spec2Model ----
(***************************************************************************)
(* Model of the barber booking application, src/app.py: the store's four   *)
(* tables, the login session, and the request handlers of the Flask app.   *)
(* Strings the code inspects character by character (client name, email,   *)
(* date) are sequences of one-character strings.                           *)
(***************************************************************************)
EXTENDS Integers, Sequences, FiniteSets, TLC

VARIABLES
    users,      \* table user: sequence of rows, id = position
    barbers,    \* table barber
    clients,    \* table client
    bookings,   \* table booking
    session,    \* flask_login session of the browser: user id, 0 = anonymous
    today,      \* the calendar day datetime.now() falls on (day number)
    flashed,    \* the message of the latest flash() call, "" before the first
    procs       \* /book requests being handled concurrently (SpecC only)

vars == <<users, barbers, clients, bookings, session, today, flashed, procs>>

----------------------------------------------------------------------------
(* Bounds of the model *)

MaxBookings == 2
MaxDay == 2

MaxClients == MaxBookings + 1

----------------------------------------------------------------------------
(* Characters and strings *)

Lower == {"a","b","c","d","e","f","g","h","i","j","k","l","m",
          "n","o","p","q","r","s","t","u","v","w","x","y","z"}
Upper == {"A","B","C","D","E","F","G","H","I","J","K","L","M",
          "N","O","P","Q","R","S","T","U","V","W","X","Y","Z"}
DigitChars == <<"0","1","2","3","4","5","6","7","8","9">>
Digits == {DigitChars[i] : i \in 1..10}
Whitespace == {" "}

\* code points of the characters a date string is made of
CodePoints == [c \in Digits \cup {"-"} |->
                 IF c = "-" THEN 45 ELSE 47 + (CHOOSE i \in 1..10 : DigitChars[i] = c)]
Ord(c) == CodePoints[c]

RECURSIVE LStrip(_)
LStrip(s) == IF s # <<>> /\ Head(s) \in Whitespace THEN LStrip(Tail(s)) ELSE s

RECURSIVE RStrip(_)
RStrip(s) == IF s # <<>> /\ s[Len(s)] \in Whitespace
             THEN RStrip(SubSeq(s, 1, Len(s) - 1)) ELSE s

\* str.strip()
Strip(s) == RStrip(LStrip(s))

\* str < str: lexicographic by code point, a proper prefix is smaller
StrLess(a, b) ==
    LET m == IF Len(a) < Len(b) THEN Len(a) ELSE Len(b)
        diff == { i \in 1..m : a[i] # b[i] }
    IN  IF diff = {} THEN Len(a) < Len(b)
        ELSE \E i \in diff : (\A j \in diff : i <= j) /\ Ord(a[i]) < Ord(b[i])

\* n written with w decimal digits, zero padded (%Y, %m, %d of strftime)
RECURSIVE Pad(_, _)
Pad(n, w) == IF w = 0 THEN <<>> ELSE Pad(n \div 10, w - 1) \o <<DigitChars[(n % 10) + 1]>>

\* strftime('%Y-%m-%d')
Strftime(ymd) == Pad(ymd[1], 4) \o <<"-">> \o Pad(ymd[2], 2) \o <<"-">> \o Pad(ymd[3], 2)

\* the calendar: day number n as <<year, month, day>>; day 1 is 2025-09-30
DayOf(n) == IF n = 1 THEN <<2025, 9, 30>> ELSE <<2025, 10, n - 1>>

\* datetime.now().strftime('%Y-%m-%d'), the clock reading the day `today`
Days == 1..MaxDay
DateOfDay == [n \in Days |-> Strftime(DayOf(n))]
Today == DateOfDay[today]

\* [a-zA-Z0-9_.+-], [a-zA-Z0-9-], [a-zA-Z0-9-.]
LocalChars == Lower \cup Upper \cup Digits \cup {"_", ".", "+", "-"}
DomainChars == Lower \cup Upper \cup Digits \cup {"-"}
TldChars == Lower \cup Upper \cup Digits \cup {"-", "."}

\* re.match(r'^[a-zA-Z0-9_.+-]+@[a-zA-Z0-9-]+\.[a-zA-Z0-9-.]+$', s)
email_pattern(s) ==
    \E i \in 2..Len(s) : \E j \in (i + 2)..(Len(s) - 1) :
        /\ s[i] = "@"
        /\ s[j] = "."
        /\ \A k \in 1..(i - 1) : s[k] \in LocalChars
        /\ \A k \in (i + 1)..(j - 1) : s[k] \in DomainChars
        /\ \A k \in (j + 1)..Len(s) : s[k] \in TldChars

----------------------------------------------------------------------------
(* Request inputs *)

\* the <<client_name, client_email>> forms the requests of a run carry: one
\* that passes both checks, and one failing each check
GoodClient == << <<" ", "A", "l", " ">>, <<" ", "a", "@", "b", ".", "c", "o">> >>
BadClients == { << <<" ">>, <<"a", "@", "b", ".", "c", "o">> >>,
                << <<"B", "o">>, <<"a", "@", "b">> >>,
                << <<>>, <<"n", "o", "t", "-", "a", "n", "-", "e", "m", "a", "i", "l">> >> }

DateInputs == { DateOfDay[n] : n \in Days }

all_slots == <<"09:00", "10:00", "11:00", "12:00", "13:00", "14:00", "15:00", "16:00">>

AdminName == <<"a", "d", "m", "i", "n">>
AdminPassword == <<"a", "d", "m", "i", "n", "1", "2", "3">>

\* the <<username, password, confirm_password>> forms sent to /register
RegisterInputs == { <<<<"b", "o", "b">>, <<"p", "w">>, <<"p", "w", " ">>>>,
                    <<<<"c", "a", "l", " ">>, <<"p", "w">>, <<"p", "w">>>>,
                    <<<<" ">>, <<"p", "w">>, <<"p", "w">>>>,
                    <<<<"b", "o", "b">>, <<"p", "w">>, AdminPassword>>,
                    <<AdminName, <<"p", "w">>, <<"p", "w">>>> }

\* the <<username, password>> forms sent to /login
LoginInputs == { <<AdminName, AdminPassword>>,
                 <<<<"b", "o", "b">>, <<"p", "w">>>>,
                 <<<<"b", "o", "b">>, AdminPassword>> }

\* the most Barber rows a run creates: one per name that can register.  A
\* barber id of a request is an id no Barber record has until that many
\* users have registered.
MaxBarbers == Cardinality({ Strip(r[1]) : r \in RegisterInputs } \ {<<>>, AdminName})
BarberIdInputs == 1..MaxBarbers
BookingIdInputs == 1..(MaxBookings + 1)

\* the <<barber, date, time>> triples the requests of a run carry: a first
\* one, and one differing from it in each field
FirstSlot == <<1, DateOfDay[1], "09:00">>
SlotInputs == { FirstSlot,
                <<2, DateOfDay[1], "09:00">>,
                <<1, DateOfDay[MaxDay], "09:00">>,
                <<1, DateOfDay[1], "16:00">> }

\* the /book forms of a run: the valid client with every slot, and each
\* invalid client
BookInputs ==
    { <<GoodClient[1], GoodClient[2], x[1], x[2], x[3]>> : x \in SlotInputs }
    \cup { <<c[1], c[2], FirstSlot[1], FirstSlot[2], FirstSlot[3]>> : c \in BadClients }

\* the <<barber_id, date>> queries sent to /slots
SlotsInputs == { <<x[1], x[2]>> : x \in SlotInputs }

\* <<method, username, password>> and <<method, username, password, confirm>>
LoginRequests ==
    { <<"GET", <<>>, <<>>>> } \cup { <<"POST", l[1], l[2]>> : l \in LoginInputs }
RegisterRequests ==
    { <<"GET", <<>>, <<>>, <<>>>> } \cup { <<"POST", r[1], r[2], r[3]>> : r \in RegisterInputs }

\* where the store raises OperationalError in a handler: nowhere ("none"),
\* at its query, at its first commit, at its second commit
BookFaults == {"query", "commit1", "commit2"}
RegisterFaults == {"query", "commit1", "commit2"}
CancelFaults == {"query", "commit1"}

Procs == {"r1", "r2"}

----------------------------------------------------------------------------
(* The store *)

\* generate_password_hash / check_password_hash
generate_password_hash(password) == <<"hash", password>>
check_password_hash(hash, password) == hash = generate_password_hash(password)

UserByName(username) ==
    LET m == { i \in 1..Len(users) : users[i].username = username }
    IN IF m = {} THEN 0 ELSE CHOOSE i \in m : \A k \in m : i <= k

\* Barber.query.filter_by(user_id=...).first(): 0 when there is none
BarberOfUser(user_id) ==
    LET m == { i \in 1..Len(barbers) : barbers[i].user_id = user_id }
    IN IF m = {} THEN 0 ELSE CHOOSE i \in m : \A k \in m : i <= k

\* the occupancy query filtering on the wrong column (client_id for barber_id)
existing_booking_WrongColumn(bks, barber_id, date, time) ==
    \E i \in 1..Len(bks) :
        bks[i].client_id = barber_id /\ bks[i].date = date /\ bks[i].time = time

\* Booking.query.filter_by(barber_id=, date=, time=).first() is not None:
\* the status column is not part of the filter
existing_booking(bks, barber_id, date, time) ==
    \E i \in 1..Len(bks) :
        bks[i].barber_id = barber_id /\ bks[i].date = date /\ bks[i].time = time

Client(name, email) == [name |-> name, email |-> email]

\* an insert under a unique constraint over (barber_id, date, time)
insert_booking_Unique(bks, row) ==
    IF \E i \in 1..Len(bks) : bks[i].barber_id = row.barber_id
                               /\ bks[i].date = row.date /\ bks[i].time = row.time
    THEN bks ELSE Append(bks, row)

\* db.session.add(booking); db.session.commit(): the table has no unique
\* constraint over (barber_id, date, time), the row is always appended
insert_booking(bks, row) == Append(bks, row)

Booking(barber_id, client_id, date, time) ==
    [barber_id |-> barber_id, client_id |-> client_id, date |-> date,
     time |-> time, status |-> "Confirmed"]

\* the outcomes of a handler that end without a flash() call: pages and JSON
\* answers, the redirect after login and logout, the 404 and 500 answers
NoFlash == {"ok", "form", "logged_in", "logged_out", "not_found", "error500"}

\* flash(message): the latest flashed message after a handler ended `outcome`
Flash(outcome) == IF outcome \in NoFlash THEN flashed ELSE outcome

----------------------------------------------------------------------------
(* POST /book *)

\* the same checks with the date compared first
book_validate_DateFirst(client_name, client_email, date) ==
    IF StrLess(date, Today) THEN "past_date"
    ELSE IF client_name = <<>> THEN "name_required"
    ELSE IF ~email_pattern(client_email) THEN "invalid_email"
    ELSE "ok"

\* lines 128-142: the checks that need no store access; "ok" when all pass
book_validate(client_name, client_email, date) ==
    IF client_name = <<>> THEN "name_required"
    ELSE IF ~email_pattern(client_email) THEN "invalid_email"
    ELSE IF StrLess(date, Today) THEN "past_date"
    ELSE "ok"

BookOut(outcome, cl, bk) == [outcome |-> outcome, clients |-> cl, bookings |-> bk]

\* the whole handler: its outcome and the client and booking tables it leaves
book(name_raw, email_raw, barber_id, date, time, fault) ==
    LET client_name == Strip(name_raw)
        client_email == Strip(email_raw)
        checked == book_validate(client_name, client_email, date)
        client_id == Len(clients) + 1
        with_client == Append(clients, Client(client_name, client_email))
    IN  IF checked # "ok" THEN BookOut(checked, clients, bookings)
        ELSE IF fault = "query" THEN BookOut("db_error", clients, bookings)
        ELSE IF existing_booking(bookings, barber_id, date, time)
             THEN BookOut("slot_taken", clients, bookings)
        ELSE IF fault = "commit1" THEN BookOut("db_error", clients, bookings)
        ELSE IF fault = "commit2" THEN BookOut("db_error", with_client, bookings)
        ELSE BookOut("confirmed", with_client,
                     insert_booking(bookings, Booking(barber_id, client_id, date, time)))

Book(name_raw, email_raw, barber_id, date, time, fault) ==
    \E r \in {book(name_raw, email_raw, barber_id, date, time, fault)} :
        /\ Len(r.bookings) <= MaxBookings
        /\ Len(r.clients) <= MaxClients
        /\ clients' = r.clients
        /\ bookings' = r.bookings
        /\ flashed' = Flash(r.outcome)
        /\ UNCHANGED <<users, barbers, session, today, procs>>

----------------------------------------------------------------------------
(* GET /slots *)

\* the same query counting Confirmed bookings only
booked_times_ConfirmedOnly(barber_id, date) ==
    { bookings[i].time : i \in { k \in 1..Len(bookings) :
          bookings[k].barber_id = barber_id /\ bookings[k].date = date
          /\ bookings[k].status = "Confirmed" } }

\* [slot.time for slot in Booking.query.filter_by(barber_id=, date=).all()]
booked_times(barber_id, date) ==
    { bookings[i].time : i \in { k \in 1..Len(bookings) :
          bookings[k].barber_id = barber_id /\ bookings[k].date = date } }

available_slots(barber_id, date) ==
    LET free(slot) == slot \notin booked_times(barber_id, date)
    IN  SelectSeq(all_slots, free)

\* the handler's answer: the JSON list, or [] with status 500
slots(barber_id, date, fault) ==
    IF fault = "query" THEN [outcome |-> "error500", body |-> <<>>]
    ELSE [outcome |-> "ok", body |-> available_slots(barber_id, date)]

Slots(barber_id, date, fault) ==
    /\ flashed' = Flash(slots(barber_id, date, fault).outcome)
    /\ UNCHANGED <<users, barbers, clients, bookings, session, today, procs>>

----------------------------------------------------------------------------
(* GET / *)

\* the handler's answer: the page listing the barbers
index(fault) ==
    IF fault = "query" THEN [outcome |-> "db_error", body |-> <<>>]
    ELSE [outcome |-> "ok", body |-> barbers]

Index(fault) ==
    /\ flashed' = Flash(index(fault).outcome)
    /\ UNCHANGED <<users, barbers, clients, bookings, session, today, procs>>

----------------------------------------------------------------------------
(* /login, /logout *)

Login(method, username, password, fault) ==
    LET user == UserByName(username)
    IN  /\ IF method = "GET" THEN
               /\ flashed' = Flash("form")
               /\ UNCHANGED session
           ELSE IF fault = "query" THEN
               /\ flashed' = Flash("db_error")
               /\ UNCHANGED session
           ELSE IF user # 0 /\ check_password_hash(users[user].password_hash, password) THEN
               /\ session' = user
               /\ flashed' = Flash("logged_in")
           ELSE
               /\ flashed' = Flash("invalid_credentials")
               /\ UNCHANGED session
        /\ UNCHANGED <<users, barbers, clients, bookings, today, procs>>

Logout ==
    /\ IF session = 0 THEN
           /\ flashed' = Flash("login_required")
           /\ UNCHANGED session
       ELSE
           /\ session' = 0
           /\ flashed' = Flash("logged_out")
    /\ UNCHANGED <<users, barbers, clients, bookings, today, procs>>

----------------------------------------------------------------------------
(* /register *)

User(username, password) ==
    [username |-> username, password_hash |-> generate_password_hash(password),
     is_admin |-> FALSE]

RegOut(outcome, us, bs) == [outcome |-> outcome, users |-> us, barbers |-> bs]

register(method, username_raw, password_raw, confirm_raw, fault) ==
    LET username == Strip(username_raw)
        password == Strip(password_raw)
        confirm_password == Strip(confirm_raw)
        with_user == Append(users, User(username, password))
        user_id == Len(users) + 1
    IN  IF method = "GET" THEN RegOut("form", users, barbers)
        ELSE IF username = <<>> \/ password = <<>> \/ confirm_password = <<>>
             THEN RegOut("fields_required", users, barbers)
        ELSE IF password # confirm_password
             THEN RegOut("password_mismatch", users, barbers)
        ELSE IF fault = "query" THEN RegOut("db_error", users, barbers)
        ELSE IF UserByName(username) # 0
             THEN RegOut("username_exists", users, barbers)
        ELSE IF fault = "commit1" THEN RegOut("db_error", users, barbers)
        ELSE IF fault = "commit2" THEN RegOut("db_error", with_user, barbers)
        ELSE RegOut("registered", with_user,
                    Append(barbers, [name |-> username, user_id |-> user_id]))

Register(method, username_raw, password_raw, confirm_raw, fault) ==
    \E r \in {register(method, username_raw, password_raw, confirm_raw, fault)} :
        /\ users' = r.users
        /\ barbers' = r.barbers
        /\ flashed' = Flash(r.outcome)
        /\ UNCHANGED <<clients, bookings, session, today, procs>>

----------------------------------------------------------------------------
(* GET /dashboard *)

\* Booking.query.join(Barber).filter(Barber.user_id == current_user.id).all()
dashboard_bookings(user_id) ==
    LET mine(i) == \E b \in 1..Len(barbers) :
                      b = bookings[i].barber_id /\ barbers[b].user_id = user_id
        ids == [i \in 1..Len(bookings) |-> i]
    IN  SelectSeq(ids, mine)

\* the handler's answer for current_user: the page listing its bookings
dashboard(current_user, fault) ==
    IF current_user = 0 THEN [outcome |-> "login_required", body |-> <<>>]
    ELSE IF fault = "query" THEN [outcome |-> "db_error", body |-> <<>>]
    ELSE [outcome |-> "ok", body |-> dashboard_bookings(current_user)]

Dashboard(fault) ==
    /\ flashed' = Flash(dashboard(session, fault).outcome)
    /\ UNCHANGED <<users, barbers, clients, bookings, session, today, procs>>

----------------------------------------------------------------------------
(* POST /cancel/<booking_id> *)

CancelOut(outcome, bk) == [outcome |-> outcome, bookings |-> bk]

\* a cancel that flips the status back and forth
set_cancelled_Toggle(bk, booking_id) ==
    [bk EXCEPT ![booking_id].status =
        IF @ = "Confirmed" THEN "Cancelled" ELSE "Confirmed"]

\* booking.status = 'Cancelled'
set_cancelled(bk, booking_id) == [bk EXCEPT ![booking_id].status = "Cancelled"]

\* the whole handler for the logged-in user current_user: its outcome and the
\* booking table it leaves.  With no Barber row for the user, barber is None
\* and barber.id raises AttributeError, which the handler does not catch.
cancel(current_user, booking_id, fault) ==
    LET barber == BarberOfUser(current_user)
    IN  IF current_user = 0 THEN CancelOut("login_required", bookings)
        ELSE IF fault = "query" THEN CancelOut("db_error", bookings)
        ELSE IF booking_id \notin 1..Len(bookings) THEN CancelOut("not_found", bookings)
        ELSE IF barber = 0 THEN CancelOut("error500", bookings)
        ELSE IF bookings[booking_id].barber_id # barber
             THEN CancelOut("unauthorized", bookings)
        ELSE IF fault = "commit1" THEN CancelOut("db_error", bookings)
        ELSE CancelOut("cancelled", set_cancelled(bookings, booking_id))

Cancel(booking_id, fault) ==
    \E r \in {cancel(session, booking_id, fault)} :
        /\ bookings' = r.bookings
        /\ flashed' = Flash(r.outcome)
        /\ UNCHANGED <<users, barbers, clients, session, today, procs>>

----------------------------------------------------------------------------
(* The clock, start-up, and the sequential server *)

\* midnight passes: datetime.now() moves to the next calendar day
Tick ==
    /\ today < MaxDay
    /\ today' = today + 1
    /\ UNCHANGED <<users, barbers, clients, bookings, session, flashed, procs>>

Idle == [pc |-> "idle", name |-> <<>>, email |-> <<>>,
         barber_id |-> 0, date |-> <<>>, time |-> "", client_id |-> 0]

\* initialize_database() and ensure_admin_user() on an empty database file
ensure_admin_user ==
    <<[username |-> AdminName, password_hash |-> generate_password_hash(AdminPassword),
       is_admin |-> TRUE]>>

Init ==
    /\ users = ensure_admin_user
    /\ barbers = <<>>
    /\ clients = <<>>
    /\ bookings = <<>>
    /\ session = 0
    /\ today = 1
    /\ flashed = ""
    /\ procs = [p \in Procs |-> Idle]

\* the server handling one request at a time, the store answering every call
Next ==
    \/ Index("none")
    \/ \E r \in BookInputs : Book(r[1], r[2], r[3], r[4], r[5], "none")
    \/ \E x \in SlotsInputs : Slots(x[1], x[2], "none")
    \/ \E l \in LoginRequests : Login(l[1], l[2], l[3], "none")
    \/ Logout
    \/ \E r \in RegisterRequests : Register(r[1], r[2], r[3], r[4], "none")
    \/ Dashboard("none")
    \/ \E id \in BookingIdInputs : Cancel(id, "none")
    \/ Tick

Spec == Init /\ [][Next]_vars

\* the store raising OperationalError during a request
StoreFault ==
    \/ Index("query")
    \/ \E f \in BookFaults :
          Book(GoodClient[1], GoodClient[2], FirstSlot[1], FirstSlot[2], FirstSlot[3], f)
    \/ Slots(FirstSlot[1], FirstSlot[2], "query")
    \/ Login("POST", AdminName, AdminPassword, "query")
    \/ \E f \in RegisterFaults : Register("POST", <<"b", "o", "b">>, <<"p", "w">>, <<"p", "w">>, f)
    \/ Dashboard("query")
    \/ \E f \in CancelFaults : Cancel(1, f)

\* the same server with a store that may fail
NextF == Next \/ StoreFault

SpecF == Init /\ [][NextF]_vars

----------------------------------------------------------------------------
(* Two /book requests handled concurrently (the threaded server): each store
   call of the handler is a step of its own, the calls of the two requests
   interleave *)

InFlight == { p \in Procs : procs[p].pc # "idle" }

\* lines 122-147: read the form, validate, query the slot
BookBegin(p, name_raw, email_raw, barber_id, date, time) ==
    LET client_name == Strip(name_raw)
        client_email == Strip(email_raw)
        checked == book_validate(client_name, client_email, date)
    IN  /\ procs[p].pc = "idle"
        /\ IF checked # "ok" THEN
               /\ flashed' = Flash(checked)
               /\ UNCHANGED procs
           ELSE IF existing_booking(bookings, barber_id, date, time) THEN
               /\ flashed' = Flash("slot_taken")
               /\ UNCHANGED procs
           ELSE
               /\ Len(bookings) + Cardinality(InFlight) < MaxBookings
               /\ procs' = [procs EXCEPT ![p] =
                      [pc |-> "add_client", name |-> client_name,
                       email |-> client_email, barber_id |-> barber_id, date |-> date,
                       time |-> time, client_id |-> 0]]
               /\ UNCHANGED flashed
        /\ UNCHANGED <<users, barbers, clients, bookings, session, today>>

\* lines 149-151: insert the Client row and commit
BookAddClient(p) ==
    /\ procs[p].pc = "add_client"
    /\ clients' = Append(clients, Client(procs[p].name, procs[p].email))
    /\ procs' = [procs EXCEPT ![p].pc = "add_booking", ![p].client_id = Len(clients) + 1]
    /\ UNCHANGED <<users, barbers, bookings, session, today, flashed>>

\* lines 153-158: insert the Booking row, commit, answer
BookAddBooking(p) ==
    /\ procs[p].pc = "add_booking"
    /\ bookings' = insert_booking(bookings,
           Booking(procs[p].barber_id, procs[p].client_id, procs[p].date, procs[p].time))
    /\ procs' = [procs EXCEPT ![p] = Idle]
    /\ flashed' = Flash("confirmed")
    /\ UNCHANGED <<users, barbers, clients, session, today>>

NextC ==
    \/ \E p \in Procs, r \in BookInputs : BookBegin(p, r[1], r[2], r[3], r[4], r[5])
    \/ \E p \in Procs : BookAddClient(p)
    \/ \E p \in Procs : BookAddBooking(p)
    \/ \E r \in RegisterRequests : Register(r[1], r[2], r[3], r[4], "none")

SpecC == Init /\ [][NextC]_vars

----------------------------------------------------------------------------
(* Properties *)

Confirmed(i) == bookings[i].status = "Confirmed"

SameSlot(r, barber_id, date, time) ==
    r.barber_id = barber_id /\ r.date = date /\ r.time = time

ConfirmedAt(barber_id, date, time) ==
    \E i \in 1..Len(bookings) : Confirmed(i) /\ SameSlot(bookings[i], barber_id, date, time)

\* the calendar days from today on, and the days before today
DaysFromToday == { k \in Days : k >= today }
DaysBeforeToday == { k \in Days : k < today }

Range(seq) == { seq[i] : i \in 1..Len(seq) }

CatalogTimes == Range(all_slots)
InputTimes == { x[3] : x \in SlotInputs }

Flashed(outcome) == flashed = outcome

\* forms with a non-empty name and a well-formed email, and all client forms
ValidClients == { GoodClient, << <<"B", "o">>, <<" ", "x", "@", "y", ".", "z", " ">> >> }
ClientForms == ValidClients \cup BadClients

\* C1: with requests handled one at a time, no two Confirmed bookings share
\* (barber_id, date, time), and a /book form with a valid name and email and
\* a date not in the past, for a slot that has a Confirmed booking, is
\* answered "slot taken" and changes nothing, whatever name and email it has.
C1_NoDoubleBooking ==
    /\ \A i, j \in 1..Len(bookings) :
          (i < j /\ Confirmed(i) /\ Confirmed(j))
              => ~SameSlot(bookings[i], bookings[j].barber_id, bookings[j].date, bookings[j].time)
    /\ \A i \in 1..Len(bookings) : \A c \in ValidClients :
          (Confirmed(i) /\ ~StrLess(bookings[i].date, Today))
              => book(c[1], c[2], bookings[i].barber_id, bookings[i].date, bookings[i].time, "none")
                   = BookOut("slot_taken", clients, bookings)

\* a second request for the one Confirmed booking's slot was just answered "slot taken"
C1_Witness ==
    /\ Flashed("slot_taken")
    /\ Len(bookings) = 1
    /\ Confirmed(1)

\* C2: for every barber and date, /slots returns the catalog without the
\* times of the Confirmed bookings of that barber and date, in catalog order
\* (a time with only Cancelled bookings is listed).
C2_SlotsAreCatalogMinusConfirmed ==
    \A b \in BarberIdInputs, d \in DateInputs :
        LET free(t) == ~ConfirmedAt(b, d, t)
        IN  available_slots(b, d) = SelectSeq(all_slots, free)

\* C3: a /book form with a valid name and email and a date not in the past
\* is answered "slot taken" exactly when a Confirmed booking has its slot
\* (so a cancelled slot can be booked again).
C3_SlotTakenIffConfirmed ==
    \A b \in BarberIdInputs, k \in DaysFromToday, t \in CatalogTimes :
        (book(GoodClient[1], GoodClient[2], b, DateOfDay[k], t, "none").outcome = "slot_taken")
            <=> ConfirmedAt(b, DateOfDay[k], t)

\* C4: /cancel by a logged-in operator whose Barber profile is not the
\* booking's barber (or who has no Barber profile) is answered Unauthorized
\* and changes no record.
C4_ForeignCancelUnauthorized ==
    \A id \in 1..Len(bookings) :
        (session # 0 /\ BarberOfUser(session) # bookings[id].barber_id)
            => cancel(session, id, "none") = CancelOut("unauthorized", bookings)

\* C5: a /book request during which the store fails is answered with the
\* database error and leaves the Client and Booking tables as they were.
C5_StoreFailureChangesNothing ==
    [][Flashed("db_error")' => (clients' = clients /\ bookings' = bookings)]_vars

\* C6: with the occupancy query and the Booking insert as separate steps of
\* concurrent requests, a request that passed the query is admitted whatever
\* was inserted meanwhile: its insert step always appends its Confirmed
\* booking, also when the slot has a booking by then, so that two requests
\* for one slot that both pass the query both end admitted.
C6_InsertIgnoresOccupancy ==
    [][\A p \in Procs :
          (procs[p].pc = "add_booking" /\ procs'[p].pc = "idle")
              => bookings' = Append(bookings,
                     Booking(procs[p].barber_id, procs[p].client_id,
                             procs[p].date, procs[p].time))]_vars

\* two Confirmed bookings for one (barber, date, time)
C6_Witness ==
    \E i, j \in 1..Len(bookings) :
        /\ i < j /\ Confirmed(i) /\ Confirmed(j)
        /\ SameSlot(bookings[i], bookings[j].barber_id, bookings[j].date, bookings[j].time)

\* C7: no request removes or rewrites a Booking record; a new one is
\* Confirmed; a status only ever changes from Confirmed to Cancelled, and a
\* Cancelled booking stays Cancelled.
C7_StatusOneWay ==
    [][/\ Len(bookings') >= Len(bookings)
       /\ \A i \in 1..Len(bookings) :
             /\ [bookings'[i] EXCEPT !.status = "x"] = [bookings[i] EXCEPT !.status = "x"]
             /\ \/ bookings'[i].status = bookings[i].status
                \/ bookings[i].status = "Confirmed" /\ bookings'[i].status = "Cancelled"
       /\ \A i \in (Len(bookings) + 1)..Len(bookings') : bookings'[i].status = "Confirmed"
      ]_vars

\* a cancel request was just carried out and left its booking Cancelled
C7_Witness ==
    /\ Flashed("cancelled")
    /\ \E i \in 1..Len(bookings) : bookings[i].status = "Cancelled"

\* the answer the order of checks (name, email, date, slot) gives a form
FirstFailingCheck(n, e, b, d, t) ==
    IF Strip(n) = <<>> THEN "name_required"
    ELSE IF ~email_pattern(Strip(e)) THEN "invalid_email"
    ELSE IF \E k \in DaysBeforeToday : d = DateOfDay[k] THEN "past_date"
    ELSE IF \E i \in 1..Len(bookings) : SameSlot(bookings[i], b, d, t) THEN "slot_taken"
    ELSE "confirmed"

\* C8: a /book form is rejected for the first failing check in the order
\* empty name, malformed email, date before today, slot occupied; a
\* rejection creates no Client and no Booking; so a past date with a valid
\* name and email is "past date" whether or not the slot is occupied.
C8_FirstFailingCheck ==
    \A c \in ClientForms, x \in SlotInputs :
        \A r \in {book(c[1], c[2], x[1], x[2], x[3], "none")} :
            /\ r.outcome = FirstFailingCheck(c[1], c[2], x[1], x[2], x[3])
            /\ r.outcome # "confirmed" => (r.clients = clients /\ r.bookings = bookings)

\* a form for a past date was just rejected while a past slot is booked
C8_Witness ==
    /\ Flashed("past_date")
    /\ \E i \in 1..Len(bookings) : \E k \in DaysBeforeToday : bookings[i].date = DateOfDay[k]

\* C9: every Booking's barber_id is the id of a Barber record and its
\* client_id the id of a Client record.
C9_BookingsReferenceExistingRows ==
    \A i \in 1..Len(bookings) :
        /\ bookings[i].barber_id \in 1..Len(barbers)
        /\ bookings[i].client_id \in 1..Len(clients)

\* C10: /slots and /book agree: for every barber, date from today on and
\* catalog time, the time is in the /slots list exactly when a valid /book
\* form for it would be admitted; and right after an admitted booking its
\* time is not in the /slots list of its barber and date.
C10_SlotsAgreeWithBook ==
    /\ \A b \in BarberIdInputs, k \in DaysFromToday :
          \A listed \in {Range(available_slots(b, DateOfDay[k]))} :
              \A t \in CatalogTimes :
                  \A c \in (IF t \in InputTimes THEN ValidClients ELSE {GoodClient}) :
                      t \in listed
                          <=> book(c[1], c[2], b, DateOfDay[k], t, "none").outcome = "confirmed"
    /\ Flashed("confirmed") =>
          LET new == bookings[Len(bookings)]
          IN  new.time \notin Range(available_slots(new.barber_id, new.date))

\* a booking was just admitted
C10_Witness ==
    /\ Flashed("confirmed")
    /\ Len(bookings) >= 1
    /\ Confirmed(Len(bookings))

====
